---- MODULE Spec2Model ----
(***************************************************************************)
(* Model of mapreduce_word_analyzer.py: class MapReduceWordCounter.        *)
(*                                                                         *)
(* A text is a sequence of characters; a character is a one-character      *)
(* string, except the two code points U+0130 and U+0307, which are written *)
(* by their names.  A word is a sequence of characters without whitespace. *)
(* A dict is a function whose DOMAIN is its key set.                       *)
(***************************************************************************)
EXTENDS Integers, Sequences, FiniteSets, TLC

VARIABLES
    pc,               \* position of the caller / of the orchestrator thread
    text,             \* the argument `text`
    num_workers,      \* self.num_workers (or the argument num_chunks)
    cleaned_text,     \* mapreduce: cleaned_text
    recleaned,        \* the result of a second clean_text call
    text_chunks,      \* mapreduce: text_chunks
    map_futures,      \* state of each submitted future
    results,          \* the value each finished future holds
    yielded,          \* futures as_completed has already yielded
    appended,         \* how many times each future's pairs were appended
    all_word_pairs,   \* mapreduce: all_word_pairs
    word_frequencies, \* mapreduce: word_frequencies
    error             \* the exception leaving the call, "" when none

vars == <<pc, text, num_workers, cleaned_text, recleaned, text_chunks,
          map_futures, results, yielded, appended, all_word_pairs,
          word_frequencies, error>>

-----------------------------------------------------------------------------
(* Bounds *)

MaxLen == 4
MaxPieces == 4
MaxWorkers == 3

-----------------------------------------------------------------------------
(* Characters *)

LowerSeq == <<"a","b","c","d","e","f","g","h","i","j","k","l","m",
              "n","o","p","q","r","s","t","u","v","w","x","y","z">>
UpperSeq == <<"A","B","C","D","E","F","G","H","I","J","K","L","M",
              "N","O","P","Q","R","S","T","U","V","W","X","Y","Z">>

Lowercase == {LowerSeq[i] : i \in 1..26}
Uppercase == {UpperSeq[i] : i \in 1..26}
Digits == {"0","1","2","3","4","5","6","7","8","9"}
Whitespace == {" ", "\t", "\n", "\r"}

\* LATIN CAPITAL LETTER I WITH DOT ABOVE: an uppercase letter (matches \w)
\* whose lowercase is the two code points "i", U+0307.
CapitalIDot == "U+0130"
\* COMBINING DOT ABOVE: a nonspacing mark; matches neither \w nor \s.
CombiningDot == "U+0307"

\* \w of a str pattern: alphanumeric or underscore
IsWordChar(c) == c \in Lowercase \cup Uppercase \cup Digits \cup {"_", CapitalIDot}

\* \s of a str pattern, and the separators of str.split()
IsSpace(c) == c \in Whitespace

\* \d of a str pattern
IsDigit(c) == c \in Digits

\* str.lower() of one character
LowerOf(c) ==
    IF c \in Uppercase
    THEN <<LowerSeq[CHOOSE i \in 1..26 : UpperSeq[i] = c]>>
    ELSE IF c = CapitalIDot THEN <<"i", CombiningDot>>
    ELSE <<c>>

\* str.lower()
RECURSIVE str_lower(_)
str_lower(s) ==
    IF s = <<>> THEN <<>> ELSE LowerOf(Head(s)) \o str_lower(Tail(s))

\* re.sub(r'[^\w\s]', ' ', s)
SubNonWord(s) ==
    [i \in 1..Len(s) |->
        IF ~IsWordChar(s[i]) /\ ~IsSpace(s[i]) THEN " " ELSE s[i]]

RECURSIVE SkipDigits(_)
SkipDigits(s) ==
    IF s # <<>> /\ IsDigit(Head(s)) THEN SkipDigits(Tail(s)) ELSE s

\* re.sub(r'\d+', ' ', s): each maximal run of digits becomes one space
RECURSIVE SubDigitRuns(_)
SubDigitRuns(s) ==
    IF s = <<>> THEN <<>>
    ELSE IF IsDigit(Head(s)) THEN <<" ">> \o SubDigitRuns(SkipDigits(Tail(s)))
    ELSE <<Head(s)>> \o SubDigitRuns(Tail(s))

\* str.split(): the maximal runs of non-whitespace characters, in order
RECURSIVE SplitFrom(_, _, _)
SplitFrom(s, cur, words) ==
    IF s = <<>>
    THEN IF cur = <<>> THEN words ELSE Append(words, cur)
    ELSE IF IsSpace(Head(s))
         THEN SplitFrom(Tail(s), <<>>,
                        IF cur = <<>> THEN words ELSE Append(words, cur))
         ELSE SplitFrom(Tail(s), Append(cur, Head(s)), words)

str_split(s) == SplitFrom(s, <<>>, <<>>)

\* ' '.join(words)
RECURSIVE str_join(_)
str_join(words) ==
    IF words = <<>> THEN <<>>
    ELSE IF Len(words) = 1 THEN Head(words)
    ELSE Head(words) \o <<" ">> \o str_join(Tail(words))

-----------------------------------------------------------------------------
(* MapReduceWordCounter *)

clean_text(t) == str_join(str_split(str_lower(SubDigitRuns(SubNonWord(t)))))

\* words[start_idx:end_idx] for 0 <= start_idx <= end_idx <= len(words)
Slice(words, start_idx, end_idx) == SubSeq(words, start_idx + 1, end_idx)

\* split_text without the remainder: the last chunk ends like the others
split_text_truncating(t, num_chunks) ==
    IF num_chunks < 0 THEN <<>>
    ELSE
    LET words == str_split(t)
        chunk_size == Len(words) \div num_chunks
    IN  [k \in 1..num_chunks |->
            str_join(Slice(words, (k - 1) * chunk_size, k * chunk_size))]

\* split_text whose last chunk is the last chunk_size words
split_text_tail(t, num_chunks) ==
    IF num_chunks < 0 THEN <<>>
    ELSE
    LET words == str_split(t)
        chunk_size == Len(words) \div num_chunks
    IN  [k \in 1..num_chunks |->
            IF k = num_chunks
            THEN str_join(Slice(words, Len(words) - chunk_size, Len(words)))
            ELSE str_join(Slice(words, (k - 1) * chunk_size, k * chunk_size))]

\* split_text for num_chunks # 0 (num_chunks = 0 raises at line 65);
\* range(num_chunks) is empty for a negative num_chunks.
split_text(t, num_chunks) ==
    IF num_chunks < 0 THEN <<>>
    ELSE
    LET words == str_split(t)
        chunk_size == Len(words) \div num_chunks
        start_idx(i) == i * chunk_size
        end_idx(i) == IF i = num_chunks - 1 THEN Len(words)
                      ELSE (i + 1) * chunk_size
    IN  [k \in 1..num_chunks |->
            str_join(Slice(words, start_idx(k - 1), end_idx(k - 1)))]

stop_words == {"the", "a", "an", "and", "or", "but", "in", "on", "at",
               "to", "for", "of", "with", "by", "from", "up", "about",
               "into", "through", "during", "before", "after", "above",
               "below", "between", "among", "is", "are", "was", "were",
               "be", "been", "being", "have", "has", "had", "do", "does",
               "did", "will", "would", "should", "could", "can", "may",
               "might", "must", "shall", "i", "you", "he", "she", "it",
               "we", "they", "them", "their", "this", "that", "these",
               "those", "not", "no", "yes", "all", "any", "some", "each",
               "every", "most", "more", "less", "much", "many", "few",
               "little", "big", "small", "large", "great", "good", "bad",
               "new", "old", "first", "last", "next", "same", "other"}

\* the Python string a word of one-character strings spells
RECURSIVE Str(_)
Str(word) == IF word = <<>> THEN "" ELSE Head(word) \o Str(Tail(word))

\* the condition of line 107
Eligible(word) == Len(word) >= 3 /\ Str(word) \notin stop_words

\* map_function without the stop-word test
map_function_nostop(text_chunk) ==
    LET words == str_split(text_chunk)
        kept == SelectSeq(words, LAMBDA word : Len(word) >= 3)
    IN  [k \in 1..Len(kept) |-> <<kept[k], 1>>]

map_function(text_chunk) ==
    LET words == str_split(text_chunk)
        kept == SelectSeq(words, Eligible)
    IN  [k \in 1..Len(kept) |-> <<kept[k], 1>>]

\* word_freq[word] = count
AddCount_assign(word_freq, word, count) ==
    [w \in DOMAIN word_freq \cup {word} |->
        IF w = word THEN count ELSE word_freq[w]]

\* word_freq[word] += count on a defaultdict(int)
AddCount(word_freq, word, count) ==
    IF word \in DOMAIN word_freq
    THEN [word_freq EXCEPT ![word] = @ + count]
    ELSE [w \in DOMAIN word_freq \cup {word} |->
            IF w = word THEN 0 + count ELSE word_freq[w]]

RECURSIVE ReduceLoop(_, _)
ReduceLoop(word_counts, word_freq) ==
    IF word_counts = <<>> THEN word_freq
    ELSE ReduceLoop(Tail(word_counts),
                    AddCount(word_freq, Head(word_counts)[1], Head(word_counts)[2]))

EmptyDict == [w \in {} |-> 0]

reduce_function(word_counts) == ReduceLoop(word_counts, EmptyDict)

-----------------------------------------------------------------------------
(* Inputs *)

Alphabet == {"a", "B", "7", "_", ".", " ", "\n", CapitalIDot}

\* every text over Alphabet of at most MaxLen characters
CharTexts == UNION {[1..k -> Alphabet] : k \in 0..MaxLen}

Pieces == { <<"T","h","e"," ">>,
            <<"c","a","t",".">>,
            <<"C","a","t"," ">>,
            <<"o","n","\n">>,
            <<"d","o","g","1">> }

RECURSIVE Flatten(_)
Flatten(ss) == IF ss = <<>> THEN <<>> ELSE Head(ss) \o Flatten(Tail(ss))

\* every text made of at most MaxPieces pieces
RawTexts == {Flatten(ss) : ss \in UNION {[1..k -> Pieces] : k \in 0..MaxPieces}}

WorkerCounts == (-1)..MaxWorkers

-----------------------------------------------------------------------------
(* State *)

Idle ==
    /\ cleaned_text = <<>>
    /\ recleaned = <<>>
    /\ text_chunks = <<>>
    /\ map_futures = <<>>
    /\ results = <<>>
    /\ yielded = {}
    /\ appended = <<>>
    /\ all_word_pairs = <<>>
    /\ word_frequencies = EmptyDict
    /\ error = ""

\* MapReduceWordCounter(num_workers) constructed, mapreduce(text) called
Init ==
    /\ pc = "clean"
    /\ text \in RawTexts
    /\ num_workers \in WorkerCounts
    /\ Idle

-----------------------------------------------------------------------------
(* mapreduce, the orchestrator thread *)

\* line 141
Clean ==
    /\ pc = "clean"
    /\ cleaned_text' = clean_text(text)
    /\ pc' = "split"
    /\ UNCHANGED <<text, num_workers, recleaned, text_chunks, map_futures,
                   results, yielded, appended, all_word_pairs,
                   word_frequencies, error>>

\* line 145; line 65 divides by num_chunks
Split ==
    /\ pc = "split"
    /\ IF num_workers = 0
       THEN /\ error' = "ZeroDivisionError"
            /\ pc' = "failed"
            /\ UNCHANGED text_chunks
       ELSE /\ text_chunks' = split_text(cleaned_text, num_workers)
            /\ pc' = "pool"
            /\ UNCHANGED error
    /\ UNCHANGED <<text, num_workers, cleaned_text, recleaned, map_futures,
                   results, yielded, appended, all_word_pairs,
                   word_frequencies>>

\* line 150: ThreadPoolExecutor raises ValueError when max_workers <= 0
CreatePool ==
    /\ pc = "pool"
    /\ IF num_workers <= 0
       THEN /\ error' = "ValueError"
            /\ pc' = "failed"
       ELSE /\ pc' = "submit"
            /\ UNCHANGED error
    /\ UNCHANGED <<text, num_workers, cleaned_text, recleaned, text_chunks,
                   map_futures, results, yielded, appended, all_word_pairs,
                   word_frequencies>>

\* lines 152-153: one executor.submit per chunk, in list order
Submit ==
    /\ pc = "submit"
    /\ Len(map_futures) < Len(text_chunks)
    /\ map_futures' = Append(map_futures, "pending")
    /\ results' = Append(results, <<>>)
    /\ appended' = Append(appended, 0)
    /\ pc' = IF Len(map_futures') = Len(text_chunks) THEN "collect" ELSE "submit"
    /\ UNCHANGED <<text, num_workers, cleaned_text, recleaned, text_chunks,
                   yielded, all_word_pairs, word_frequencies, error>>

Completed(i) == map_futures[i] \in {"finished", "raised"}

\* all_word_pairs = word_pairs instead of extend
CollectResult_overwrite(i) ==
    /\ pc = "collect"
    /\ i \in DOMAIN map_futures
    /\ i \notin yielded
    /\ map_futures[i] = "finished"
    /\ yielded' = yielded \cup {i}
    /\ all_word_pairs' = results[i]
    /\ appended' = [appended EXCEPT ![i] = @ + 1]
    /\ pc' = IF yielded' = DOMAIN map_futures THEN "reduce" ELSE "collect"
    /\ UNCHANGED <<text, num_workers, cleaned_text, recleaned, text_chunks,
                   map_futures, results, word_frequencies, error>>

\* the loop is left after the first completed future
CollectResult_first(i) ==
    /\ pc = "collect"
    /\ i \in DOMAIN map_futures
    /\ i \notin yielded
    /\ map_futures[i] = "finished"
    /\ yielded' = yielded \cup {i}
    /\ all_word_pairs' = all_word_pairs \o results[i]
    /\ appended' = [appended EXCEPT ![i] = @ + 1]
    /\ pc' = "reduce"
    /\ UNCHANGED <<text, num_workers, cleaned_text, recleaned, text_chunks,
                   map_futures, results, word_frequencies, error>>

\* lines 156-158 for a future that holds a result; the with block is left
\* after the last future (every future is then completed)
CollectResult(i) ==
    /\ pc = "collect"
    /\ i \in DOMAIN map_futures
    /\ i \notin yielded
    /\ map_futures[i] = "finished"
    /\ yielded' = yielded \cup {i}
    /\ all_word_pairs' = all_word_pairs \o results[i]
    /\ appended' = [appended EXCEPT ![i] = @ + 1]
    /\ pc' = IF yielded' = DOMAIN map_futures THEN "reduce" ELSE "collect"
    /\ UNCHANGED <<text, num_workers, cleaned_text, recleaned, text_chunks,
                   map_futures, results, word_frequencies, error>>

\* the exception of result() is swallowed and the loop goes on
CollectFailure_skip(i) ==
    /\ pc = "collect"
    /\ i \in DOMAIN map_futures
    /\ i \notin yielded
    /\ map_futures[i] = "raised"
    /\ yielded' = yielded \cup {i}
    /\ pc' = IF yielded' = DOMAIN map_futures THEN "reduce" ELSE "collect"
    /\ UNCHANGED <<text, num_workers, cleaned_text, recleaned, text_chunks,
                   map_futures, results, appended, all_word_pairs,
                   word_frequencies, error>>

\* lines 156-157 for a future that holds an exception: result() re-raises it
CollectFailure(i) ==
    /\ pc = "collect"
    /\ i \in DOMAIN map_futures
    /\ i \notin yielded
    /\ map_futures[i] = "raised"
    /\ yielded' = yielded \cup {i}
    /\ error' = "MapTaskFault"
    /\ pc' = "unwind"
    /\ UNCHANGED <<text, num_workers, cleaned_text, recleaned, text_chunks,
                   map_futures, results, appended, all_word_pairs,
                   word_frequencies>>

\* line 150, leaving the with block on an exception: shutdown(wait=True)
\* returns once every submitted future has completed, then the exception
\* leaves mapreduce
Unwind ==
    /\ pc = "unwind"
    /\ \A i \in DOMAIN map_futures : Completed(i)
    /\ pc' = "failed"
    /\ UNCHANGED <<text, num_workers, cleaned_text, recleaned, text_chunks,
                   map_futures, results, yielded, appended, all_word_pairs,
                   word_frequencies, error>>

\* lines 163-169
Reduce ==
    /\ pc = "reduce"
    /\ word_frequencies' = reduce_function(all_word_pairs)
    /\ pc' = "done"
    /\ UNCHANGED <<text, num_workers, cleaned_text, recleaned, text_chunks,
                   map_futures, results, yielded, appended, all_word_pairs,
                   error>>

-----------------------------------------------------------------------------
(* The pool's worker threads *)

Running == {i \in DOMAIN map_futures : map_futures[i] = "running"}

\* a free worker takes a pending work item
StartTask(i) ==
    /\ i \in DOMAIN map_futures
    /\ map_futures[i] = "pending"
    /\ Cardinality(Running) < num_workers
    /\ map_futures' = [map_futures EXCEPT ![i] = "running"]
    /\ UNCHANGED <<pc, text, num_workers, cleaned_text, recleaned,
                   text_chunks, results, yielded, appended, all_word_pairs,
                   word_frequencies, error>>

\* map_function(chunk) returns; the future holds its list of pairs
FinishTask(i) ==
    /\ i \in DOMAIN map_futures
    /\ map_futures[i] = "running"
    /\ results' = [results EXCEPT ![i] = map_function(text_chunks[i])]
    /\ map_futures' = [map_futures EXCEPT ![i] = "finished"]
    /\ UNCHANGED <<pc, text, num_workers, cleaned_text, recleaned,
                   text_chunks, yielded, appended, all_word_pairs,
                   word_frequencies, error>>

\* the task raises (a fault inside the worker); the future holds the exception
FailTask(i) ==
    /\ i \in DOMAIN map_futures
    /\ map_futures[i] = "running"
    /\ map_futures' = [map_futures EXCEPT ![i] = "raised"]
    /\ UNCHANGED <<pc, text, num_workers, cleaned_text, recleaned,
                   text_chunks, results, yielded, appended, all_word_pairs,
                   word_frequencies, error>>

Tasks == 1..MaxWorkers

Next ==
    \/ Clean
    \/ Split
    \/ CreatePool
    \/ Submit
    \/ \E i \in Tasks : StartTask(i)
    \/ \E i \in Tasks : FinishTask(i)
    \/ \E i \in Tasks : CollectResult(i)
    \/ Reduce

Spec == Init /\ [][Next]_vars

\* the same run when a map task may raise
NextFault ==
    \/ Next
    \/ \E i \in Tasks : FailTask(i)
    \/ \E i \in Tasks : CollectFailure(i)
    \/ Unwind

SpecFault == Init /\ [][NextFault]_vars

-----------------------------------------------------------------------------
(* clean_text called on its own, then on its own output *)

InitClean ==
    /\ pc = "call_clean"
    /\ text \in CharTexts
    /\ num_workers = 4
    /\ Idle

CleanCall ==
    /\ pc = "call_clean"
    /\ cleaned_text' = clean_text(text)
    /\ pc' = "cleaned"
    /\ UNCHANGED <<text, num_workers, recleaned, text_chunks, map_futures,
                   results, yielded, appended, all_word_pairs,
                   word_frequencies, error>>

CleanAgain ==
    /\ pc = "cleaned"
    /\ recleaned' = clean_text(cleaned_text)
    /\ pc' = "recleaned"
    /\ UNCHANGED <<text, num_workers, cleaned_text, text_chunks, map_futures,
                   results, yielded, appended, all_word_pairs,
                   word_frequencies, error>>

NextClean ==
    \/ CleanCall
    \/ CleanAgain

SpecClean == InitClean /\ [][NextClean]_vars

-----------------------------------------------------------------------------
(* split_text called on its own; num_workers holds the argument num_chunks *)

InitSplit ==
    /\ pc = "call_split"
    /\ text \in RawTexts
    /\ num_workers \in WorkerCounts
    /\ Idle

SplitCall ==
    /\ pc = "call_split"
    /\ IF num_workers = 0
       THEN /\ error' = "ZeroDivisionError"
            /\ pc' = "split_raised"
            /\ UNCHANGED text_chunks
       ELSE /\ text_chunks' = split_text(text, num_workers)
            /\ pc' = "split_returned"
            /\ UNCHANGED error
    /\ UNCHANGED <<text, num_workers, cleaned_text, recleaned, map_futures,
                   results, yielded, appended, all_word_pairs,
                   word_frequencies>>

NextSplit == SplitCall

SpecSplit == InitSplit /\ [][NextSplit]_vars

-----------------------------------------------------------------------------
(* Properties *)

\* the normalized word sequence of the run's text
NormalizedWords == str_split(clean_text(text))

\* the number of occurrences of word w in the word sequence ws
Occurrences(ws, w) == Cardinality({k \in DOMAIN ws : ws[k] = w})

\* the table of the eligible words of ws with their occurrence counts
CountTable(ws) ==
    [w \in {ws[k] : k \in {j \in DOMAIN ws : Eligible(ws[j])}} |->
        Occurrences(ws, w)]

\* C1: for num_workers >= 1 mapreduce does not fail, and the table it
\* returns has exactly the eligible words of the normalized word sequence as
\* keys, each with its number of occurrences in the whole sequence (so the
\* table is the same for every num_workers >= 1).
C1_TableIsWordCount ==
    /\ (num_workers >= 1 => pc # "failed")
    /\ (pc = "done" => word_frequencies = CountTable(NormalizedWords))

\* a run returned a non-empty table with more workers than words
C1_Witness ==
    /\ pc = "done"
    /\ num_workers > Len(NormalizedWords)
    /\ word_frequencies # EmptyDict
    /\ \E w \in DOMAIN word_frequencies : word_frequencies[w] = 2

\* the word sequences of the chunks, concatenated in list order
RECURSIVE ChunkWords(_)
ChunkWords(chunks) ==
    IF chunks = <<>> THEN <<>>
    ELSE str_split(Head(chunks)) \o ChunkWords(Tail(chunks))

\* C2: for n >= 1 split_text returns exactly n chunks, and the word
\* sequences of the chunks concatenated in list order are the input's word
\* sequence.
C2_PartitionCoverage ==
    (pc = "split_returned" /\ num_workers >= 1) =>
        /\ Len(text_chunks) = num_workers
        /\ ChunkWords(text_chunks) = str_split(text)

\* a split into 3 chunks of a word count that 3 does not divide, with a
\* first chunk that is not empty
C2_Witness ==
    /\ pc = "split_returned"
    /\ num_workers = 3
    /\ Len(str_split(text)) % 3 # 0
    /\ text_chunks[1] # <<>>

\* the pairs of all chunks in chunk order
RECURSIVE PairsInOrder(_)
PairsInOrder(chunks) ==
    IF chunks = <<>> THEN <<>>
    ELSE map_function(Head(chunks)) \o PairsInOrder(Tail(chunks))

\* C3: whatever the order in which the futures completed and were appended,
\* the returned table is the one obtained from the pairs in chunk order.
C3_OrderIndependent ==
    pc = "done" => word_frequencies = reduce_function(PairsInOrder(text_chunks))

\* a run returned whose accumulator is not in chunk order
C3_Witness ==
    /\ pc = "done"
    /\ all_word_pairs # PairsInOrder(text_chunks)
    /\ Cardinality(DOMAIN word_frequencies) >= 2

\* C4: a run with num_workers <= 0 returns no table and fails with a
\* ConfigurationError (for num_workers = 0 the failure is the partitioner's).
C4_ConfigurationError ==
    /\ (num_workers <= 0 => pc # "done")
    /\ (num_workers <= 0 /\ pc = "failed" => error = "ConfigurationError")

\* C5: once a map task has raised, reduce_function is never invoked and no
\* table is returned; a run that fails after submitting leaves mapreduce
\* with the task's fault; a run that returns has appended every chunk's pairs.
C5_MapFailureIsFatal ==
    /\ ((\E i \in DOMAIN map_futures : map_futures[i] = "raised") =>
            /\ pc \notin {"reduce", "done"}
            /\ word_frequencies = EmptyDict)
    /\ ((pc = "failed" /\ num_workers >= 1) =>
            /\ error = "MapTaskFault"
            /\ \E i \in DOMAIN map_futures : map_futures[i] = "raised")
    /\ (pc = "done" => \A i \in DOMAIN text_chunks :
                          i \in DOMAIN appended /\ appended[i] = 1)

\* a run failed on one task after pairs of another chunk had been appended
C5_Witness ==
    /\ pc = "failed"
    /\ error = "MapTaskFault"
    /\ all_word_pairs # <<>>
    /\ \E i \in DOMAIN map_futures : map_futures[i] = "raised"
    /\ \E j \in DOMAIN map_futures : map_futures[j] = "finished" /\ results[j] # <<>>

\* the positions of the eligible words of a chunk
EligiblePositions(chunk) ==
    {k \in DOMAIN str_split(chunk) : Eligible(str_split(chunk)[k])}

\* C6: no key of a returned table is shorter than 3 characters or a stop
\* word; a finished map task holds only pairs (word, 1) of words of length
\* >= 3 that are not stop words, one pair per eligible occurrence of its chunk.
C6_FilterCorrect ==
    /\ (pc = "done" =>
            \A w \in DOMAIN word_frequencies :
                Len(w) >= 3 /\ Str(w) \notin stop_words)
    /\ \A i \in DOMAIN map_futures :
            map_futures[i] = "finished" =>
                /\ \A k \in DOMAIN results[i] :
                        /\ results[i][k][2] = 1
                        /\ Len(results[i][k][1]) >= 3
                        /\ Str(results[i][k][1]) \notin stop_words
                /\ Len(results[i]) = Cardinality(EligiblePositions(text_chunks[i]))

\* a run returned a table for a text with a stop word, a short word and an
\* eligible word
C6_Witness ==
    /\ pc = "done"
    /\ \E k \in DOMAIN NormalizedWords : Str(NormalizedWords[k]) \in stop_words
    /\ \E k \in DOMAIN NormalizedWords : Len(NormalizedWords[k]) < 3
    /\ word_frequencies # EmptyDict

RECURSIVE SumValues(_)
SumValues(d) ==
    IF DOMAIN d = {} THEN 0
    ELSE LET w == CHOOSE x \in DOMAIN d : TRUE
         IN  d[w] + SumValues([x \in DOMAIN d \ {w} |-> d[x]])

RECURSIVE TotalPairs(_)
TotalPairs(rs) == IF rs = <<>> THEN 0 ELSE Len(Head(rs)) + TotalPairs(Tail(rs))

\* C7: the values of a returned table sum to the number of pairs the map
\* tasks emitted over all chunks, and every value is a positive integer.
C7_SumInvariant ==
    pc = "done" =>
        /\ SumValues(word_frequencies) = TotalPairs(results)
        /\ \A w \in DOMAIN word_frequencies : word_frequencies[w] >= 1

\* a run returned a table in which a word counts pairs of two chunks
C7_Witness ==
    /\ pc = "done"
    /\ \E i, j \in DOMAIN results :
          /\ i # j
          /\ \E k \in DOMAIN results[i], l \in DOMAIN results[j] :
                /\ results[i][k][1] = results[j][l][1]
                /\ word_frequencies[results[i][k][1]] >= 2

\* C8: clean_text(clean_text(t)) = clean_text(t)
C8_Idempotent ==
    pc = "recleaned" => recleaned = cleaned_text

\* C9: the output of clean_text holds only lowercase letters and single
\* spaces between tokens, without leading or trailing space; the empty input
\* gives the empty output.
C9_LowercaseAlphabetic ==
    pc = "cleaned" =>
        /\ \A k \in DOMAIN cleaned_text : cleaned_text[k] \in Lowercase \cup {" "}
        /\ (cleaned_text # <<>> =>
                cleaned_text[1] # " " /\ cleaned_text[Len(cleaned_text)] # " ")
        /\ \A k \in 1..(Len(cleaned_text) - 1) :
                ~(cleaned_text[k] = " " /\ cleaned_text[k + 1] = " ")
        /\ (text = <<>> => cleaned_text = <<>>)

\* every chunk has one future, completed, whose pairs were appended once
BarrierPassed ==
    /\ Len(map_futures) = Len(text_chunks)
    /\ Len(text_chunks) = num_workers
    /\ \A i \in DOMAIN map_futures :
          map_futures[i] = "finished" /\ appended[i] = 1

\* C10: reduce_function is invoked only after one task per chunk was
\* dispatched, has completed and had its result appended exactly once; only
\* the orchestrator's collecting step writes the accumulator.
C10_WaitAllBarrier ==
    /\ [](pc \in {"reduce", "done"} => BarrierPassed)
    /\ [][all_word_pairs' # all_word_pairs =>
             \E i \in Tasks : CollectResult(i)]_vars

\* reduce_function is about to run on the non-empty pairs of three chunks
C10_Witness ==
    /\ pc = "reduce"
    /\ Len(map_futures) = 3
    /\ \A i \in DOMAIN results : results[i] # <<>>
    /\ BarrierPassed

====
